---- MODULE Spec2Model ----
(***************************************************************************)
(* A model of debugger.ipynb: one linear run of the notebook's code cells  *)
(* against the collaborators it calls (Keras dataset fetch, local files,   *)
(* S3 through sagemaker.Session, the SageMaker training backend, smdebug). *)
(* The kernel's namespace is the function ns from Python names to values;  *)
(* every call that leaves the kernel is appended to calls; printed values  *)
(* are appended to out.  An uncaught exception ends the run: no cell of    *)
(* the notebook contains a try statement.                                  *)
(***************************************************************************)
EXTENDS Integers, Sequences, FiniteSets, TLC

VARIABLES pc, raised, ns, fs, dirs, s3, jobs, calls, out

vars == <<pc, raised, ns, fs, dirs, s3, jobs, calls, out>>

(* Largest sample count of a split returned by the dataset fetch. *)
MaxCount == 3

(* ------------------------------------------------------------------ *)
(* Strings                                                             *)
(* ------------------------------------------------------------------ *)

StartsWith(s, p) == Len(s) >= Len(p) /\ SubSeq(s, 1, Len(p)) = p

EndsWith(s, p) == Len(s) >= Len(p) /\ SubSeq(s, Len(s) - Len(p) + 1, Len(s)) = p

Contains(s, p) ==
  \E i \in 1..(Len(s) - Len(p) + 1) : SubSeq(s, i, i + Len(p) - 1) = p

(* A relative path names the same file with or without a leading "./". *)
normpath(p) == IF StartsWith(p, "./") THEN SubSeq(p, 3, Len(p)) ELSE p

RECURSIVE basename(_)
basename(p) ==
  IF \E i \in 1..Len(p) : SubSeq(p, i, i) = "/"
    THEN basename(SubSeq(p, 2, Len(p)))
    ELSE p

dirname(p) == SubSeq(p, 1, Len(p) - Len(basename(p)) - 1)

(* ------------------------------------------------------------------ *)
(* The kernel namespace                                                *)
(* ------------------------------------------------------------------ *)

Defined(n) == n \in DOMAIN ns

Bind(f, n, v) == [k \in DOMAIN f \cup {n} |-> IF k = n THEN v ELSE f[k]]

HasKey(d, k) == k \in DOMAIN d

Call(op, arg) == [op |-> op, arg |-> arg]

Buckets == {"sagemaker-us-east-2-429704687514", "sagemaker-eu-west-1-429704687514"}

(* ------------------------------------------------------------------ *)
(* The cells, in notebook order                                        *)
(* ------------------------------------------------------------------ *)

Stages ==
  << "load_data", "makedirs", "savez_training", "savez_validation", "ls_data",
     "set_script_path", "pygmentize", "upload_training", "upload_validation",
     "print_paths", "construct_estimator", "fit_submit", "fit_wait", "describe",
     "rules_loop", "build_path", "aws_s3_ls", "create_trial", "tensor_names",
     "tensor_values", "show_loss_values", "done" >>

StageIndex(s) == CHOOSE i \in 1..Len(Stages) : Stages[i] = s

NextStage(s) == Stages[StageIndex(s) + 1]

(* The statement at stage s completes and control moves to the next one. *)
Continue(s) == pc' = NextStage(s) /\ raised' = raised

(* try: <statement> except: pass -- the run goes on after a failure. *)
Raise_Swallowed(s) == pc' = NextStage(s) /\ raised' = s

(* The statement at stage s raises; nothing catches it and the run ends. *)
Raise(s) == pc' = "aborted" /\ raised' = s

Init ==
  /\ pc = "load_data"
  /\ raised = "none"
  /\ \E b \in Buckets :
       ns = [k \in {"sess", "role"} |->
               IF k = "sess" THEN [default_bucket |-> b] ELSE "execution-role"]
  /\ \E scripts \in SUBSET {"/root/aim410/mnist_keras_tf.py"} :
       fs = [k \in scripts |-> [kind |-> "script"]]
  /\ dirs = {}
  /\ s3 = [k \in {} |-> 0]
  /\ jobs = [k \in {} |-> 0]
  /\ calls = << >>
  /\ out = << >>

(* ------------------------------------------------------------------ *)
(* Dataset stager (cell at lines 98-108)                               *)
(* ------------------------------------------------------------------ *)

(* A numpy array: its shape and which data it holds. *)
Array(shape, data) == [shape |-> shape, dtype |-> "uint8", data |-> data]

(* What fashion_mnist.load_data() can return: two (samples, labels)     *)
(* pairs, each pair with one label per sample.                          *)
Datasets ==
  { [x_train |-> Array(<<n, 28, 28>>, "train_images"),
     y_train |-> Array(<<n>>, "train_labels"),
     x_val   |-> Array(<<m, 28, 28>>, "test_images"),
     y_val   |-> Array(<<m>>, "test_labels")] : n \in 1..MaxCount, m \in 1..MaxCount }

(* (x_train, y_train), (x_val, y_val) = fashion_mnist.load_data() *)
LoadData ==
  /\ pc = "load_data"
  /\ calls' = Append(calls, Call("load_data", "fashion_mnist"))
  /\ \/ \E d \in Datasets :
          /\ ns' = Bind(Bind(Bind(Bind(ns, "x_train", d.x_train), "y_train", d.y_train),
                             "x_val", d.x_val), "y_val", d.y_val)
          /\ Continue("load_data")
     \/ Raise("load_data") /\ UNCHANGED ns
  /\ UNCHANGED <<fs, dirs, s3, jobs, out>>

(* os.makedirs("./data", exist_ok = True) *)
MakeDirs ==
  /\ pc = "makedirs"
  /\ dirs' = dirs \cup {normpath("./data")}
  /\ Continue("makedirs")
  /\ UNCHANGED <<ns, fs, s3, jobs, calls, out>>

(* np.savez writes to the name it is given, as it is given. *)
savez_file_AsGiven(file) == file

(* np.savez appends ".npz" to a file name that does not end with it. *)
savez_file(file) == IF EndsWith(file, ".npz") THEN file ELSE file \o ".npz"

(* np.savez(file, **kwds): one write of the archive {key: array}. *)
Savez(stage, file, kwds) ==
  LET path == normpath(savez_file(file)) IN
  /\ calls' = Append(calls, Call("savez", path))
  /\ \/ /\ dirname(path) \in dirs
        /\ fs' = Bind(fs, path, [kind |-> "npz", arrays |-> kwds])
        /\ Continue(stage)
     \/ Raise(stage) /\ UNCHANGED fs
  /\ UNCHANGED <<ns, dirs, s3, jobs, out>>

(* A name that is not bound: NameError before anything else happens. *)
NameError(stage) == Raise(stage) /\ UNCHANGED <<ns, fs, dirs, s3, jobs, calls, out>>

(* np.savez('./data/training', image=x_train, label=y_train) *)
SavezTraining ==
  /\ pc = "savez_training"
  /\ IF Defined("x_train") /\ Defined("y_train")
       THEN Savez("savez_training", "./data/training",
                  [image |-> ns["x_train"], label |-> ns["y_train"]])
       ELSE NameError("savez_training")

(* The validation archive written with the training labels. *)
SavezValidation_Crossed ==
  /\ pc = "savez_validation"
  /\ IF Defined("x_val") /\ Defined("y_train")
       THEN Savez("savez_validation", "./data/validation",
                  [image |-> ns["x_val"], label |-> ns["y_train"]])
       ELSE NameError("savez_validation")

(* np.savez('./data/validation', image=x_val, label=y_val) *)
SavezValidation ==
  /\ pc = "savez_validation"
  /\ IF Defined("x_val") /\ Defined("y_val")
       THEN Savez("savez_validation", "./data/validation",
                  [image |-> ns["x_val"], label |-> ns["y_val"]])
       ELSE NameError("savez_validation")

(* %%sh / ls -l data : a non-zero exit status raises CalledProcessError. *)
LsData ==
  /\ pc = "ls_data"
  /\ IF normpath("data") \in dirs THEN Continue("ls_data") ELSE Raise("ls_data")
  /\ UNCHANGED <<ns, fs, dirs, s3, jobs, calls, out>>

(* keras_script_path = '/root/aim410/mnist_keras_tf.py' *)
SetScriptPath ==
  /\ pc = "set_script_path"
  /\ ns' = Bind(ns, "keras_script_path", "/root/aim410/mnist_keras_tf.py")
  /\ Continue("set_script_path")
  /\ UNCHANGED <<fs, dirs, s3, jobs, calls, out>>

(* %%sh -s $keras_script_path / pygmentize $1 *)
Pygmentize ==
  /\ pc = "pygmentize"
  /\ IF Defined("keras_script_path") /\ ns["keras_script_path"] \in DOMAIN fs
       THEN Continue("pygmentize")
       ELSE Raise("pygmentize")
  /\ UNCHANGED <<ns, fs, dirs, s3, jobs, calls, out>>

(* ------------------------------------------------------------------ *)
(* Uploader (cell at lines 188-197)                                    *)
(* ------------------------------------------------------------------ *)

(* upload_data called without key_prefix: the SDK's default prefix. *)
upload_uri_DefaultPrefix(bucket, path, key_prefix) ==
  "s3://" \o bucket \o "/" \o "data" \o "/" \o basename(path)

(* The address Session.upload_data returns for a single file:          *)
(* s3://<default bucket>/<key_prefix>/<file name>.                      *)
upload_uri(bucket, path, key_prefix) ==
  "s3://" \o bucket \o "/" \o key_prefix \o "/" \o basename(path)

(* name = sess.upload_data(path, key_prefix=key_prefix), in namespace n0 *)
UploadData(stage, n0, name, path, key_prefix) ==
  LET uri == upload_uri(n0["sess"].default_bucket, path, key_prefix) IN
  /\ calls' = Append(calls, Call("upload_data", normpath(path)))
  /\ \/ /\ normpath(path) \in DOMAIN fs
        /\ s3' = Bind(s3, uri, fs[normpath(path)])
        /\ ns' = Bind(n0, name, uri)
        /\ Continue(stage)
     \/ Raise(stage) /\ ns' = n0 /\ UNCHANGED s3
  /\ UNCHANGED <<fs, dirs, jobs, out>>

(* prefix = 'keras-fashion-mnist'                                        *)
(* training_input_path = sess.upload_data('data/training.npz',          *)
(*                                        key_prefix=prefix+'/training') *)
UploadTraining ==
  /\ pc = "upload_training"
  /\ LET n0 == Bind(ns, "prefix", "keras-fashion-mnist") IN
     IF Defined("sess")
       THEN UploadData("upload_training", n0, "training_input_path",
                       "data/training.npz", n0["prefix"] \o "/training")
       ELSE NameError("upload_training")

(* validation_input_path = sess.upload_data('data/validation.npz',      *)
(*                                      key_prefix=prefix+'/validation') *)
UploadValidation ==
  /\ pc = "upload_validation"
  /\ IF Defined("sess") /\ Defined("prefix")
       THEN UploadData("upload_validation", ns, "validation_input_path",
                       "data/validation.npz", ns["prefix"] \o "/validation")
       ELSE NameError("upload_validation")

(* print(training_input_path); print(validation_input_path) *)
PrintPaths ==
  /\ pc = "print_paths"
  /\ IF Defined("training_input_path") /\ Defined("validation_input_path")
       THEN /\ out' = out \o <<ns["training_input_path"], ns["validation_input_path"]>>
            /\ Continue("print_paths")
       ELSE /\ Raise("print_paths")
            /\ out' = IF Defined("training_input_path")
                        THEN Append(out, ns["training_input_path"]) ELSE out
  /\ UNCHANGED <<ns, fs, dirs, s3, jobs, calls>>

(* ------------------------------------------------------------------ *)
(* Job submitter (cells at lines 227-242 and 258-260)                  *)
(* ------------------------------------------------------------------ *)

RuleNames == <<"LossNotDecreasing", "Overfit">>

(* tf_estimator = TensorFlow(entry_point=keras_script_path, role=role, ...) *)
ConstructEstimator ==
  /\ pc = "construct_estimator"
  /\ IF Defined("keras_script_path") /\ Defined("role")
       THEN /\ ns' = Bind(ns, "tf_estimator",
                      [entry_point |-> ns["keras_script_path"],
                       role |-> ns["role"],
                       train_instance_count |-> 1,
                       train_instance_type |-> "ml.p3.2xlarge",
                       framework_version |-> "1.15",
                       script_mode |-> TRUE,
                       py_version |-> "py3",
                       rules |-> RuleNames,
                       latest_training_job |-> << >>])
            /\ Continue("construct_estimator")
       ELSE Raise("construct_estimator") /\ UNCHANGED ns
  /\ UNCHANGED <<fs, dirs, s3, jobs, calls, out>>

(* The names the SDK can generate for the training job. *)
JobNames == {"tensorflow-training-2019-12-03-10-00-00-000",
             "tensorflow-training-2019-12-03-11-30-00-000"}

TerminalStatuses == {"Completed", "Failed", "Stopped"}

(* The DebugHookConfig a training job can carry: none, one without an   *)
(* S3OutputPath, or one whose S3OutputPath ends with "/" or does not.   *)
HookConfigs(bucket) ==
  { << >>,
    << [LocalPath |-> "/opt/ml/output/tensors"] >>,
    << [LocalPath |-> "/opt/ml/output/tensors",
        S3OutputPath |-> "s3://" \o bucket \o "/"] >>,
    << [LocalPath |-> "/opt/ml/output/tensors",
        S3OutputPath |-> "s3://" \o bucket \o "/output"] >> }

RuleStatus(rule, st, t) ==
  [RuleConfigurationName |-> rule,
   RuleEvaluationJobArn |-> "arn:aws:sagemaker:rule-job/" \o rule,
   RuleEvaluationStatus |-> st,
   LastModifiedTime |-> t]

(* tf_estimator.fit({...}), first half: the job is created on the backend. *)
FitSubmit ==
  /\ pc = "fit_submit"
  /\ IF Defined("tf_estimator") /\ Defined("training_input_path")
          /\ Defined("validation_input_path")
       THEN \E name \in JobNames \ DOMAIN jobs :
              /\ calls' = Append(calls, Call("create_training_job", name))
              /\ \/ \E hook \in HookConfigs(ns["sess"].default_bucket) :
                      /\ jobs' = Bind(jobs, name,
                           [TrainingJobStatus |-> "InProgress",
                            ResourceConfig |->
                              [InstanceType |-> ns["tf_estimator"].train_instance_type,
                               InstanceCount |-> ns["tf_estimator"].train_instance_count],
                            InputDataConfig |->
                              [training |-> ns["training_input_path"],
                               validation |-> ns["validation_input_path"]],
                            hook |-> hook,
                            rules |-> [i \in 1..Len(ns["tf_estimator"].rules) |->
                                         RuleStatus(ns["tf_estimator"].rules[i],
                                                    "InProgress", 0)]])
                      /\ ns' = Bind(ns, "tf_estimator",
                                    [ns["tf_estimator"] EXCEPT
                                       !.latest_training_job = <<[name |-> name]>>])
                      /\ Continue("fit_submit")
                 \/ Raise("fit_submit") /\ UNCHANGED <<ns, jobs>>
       ELSE Raise("fit_submit") /\ UNCHANGED <<ns, jobs, calls>>
  /\ UNCHANGED <<fs, dirs, s3, out>>

(* tf_estimator.latest_training_job is set (it is None until fit has   *)
(* created a job).                                                      *)
HasLatestJob ==
  Defined("tf_estimator") /\ ns["tf_estimator"].latest_training_job # << >>

(* tf_estimator.latest_training_job.name *)
LatestJob == ns["tf_estimator"].latest_training_job[1].name

(* fit(..., wait=False): the call returns once the job is submitted. *)
FitReturn_NoWait ==
  /\ pc = "fit_wait"
  /\ Continue("fit_wait")
  /\ UNCHANGED <<ns, fs, dirs, s3, jobs, calls, out>>

(* tf_estimator.fit({...}), second half: the call blocks until the job  *)
(* has ended; it may raise for a job that has failed.                   *)
FitReturn ==
  /\ pc = "fit_wait"
  /\ HasLatestJob
  /\ jobs[LatestJob].TrainingJobStatus \in TerminalStatuses
  /\ \/ Continue("fit_wait")
     \/ jobs[LatestJob].TrainingJobStatus = "Failed" /\ Raise("fit_wait")
  /\ UNCHANGED <<ns, fs, dirs, s3, jobs, calls, out>>

(* The backend moves a running job to one of its final states. *)
JobProgress ==
  \E name \in DOMAIN jobs, st \in TerminalStatuses :
    /\ jobs[name].TrainingJobStatus = "InProgress"
    /\ jobs' = [jobs EXCEPT ![name].TrainingJobStatus = st]
    /\ UNCHANGED <<pc, raised, ns, fs, dirs, s3, calls, out>>

(* The backend finishes the evaluation of one monitoring rule. *)
RuleProgress ==
  \E name \in DOMAIN jobs :
    \E i \in 1..Len(jobs[name].rules), st \in {"NoIssuesFound", "IssuesFound"} :
      /\ jobs[name].rules[i].RuleEvaluationStatus = "InProgress"
      /\ jobs' = [jobs EXCEPT ![name].rules[i] =
                    RuleStatus(@.RuleConfigurationName, st, @.LastModifiedTime + 1)]
      /\ UNCHANGED <<pc, raised, ns, fs, dirs, s3, calls, out>>

(* ------------------------------------------------------------------ *)
(* Status / trial reader (cells at lines 283-368)                      *)
(* ------------------------------------------------------------------ *)

(* What describe_training_job answers for a job of the backend. *)
DescribeResponse(name) ==
  LET j == jobs[name]
      base == [TrainingJobName |-> name,
               TrainingJobStatus |-> j.TrainingJobStatus,
               ResourceConfig |-> j.ResourceConfig,
               DebugRuleEvaluationStatuses |-> j.rules]
  IN IF j.hook = << >> THEN base ELSE Bind(base, "DebugHookConfig", j.hook[1])

(* job_name = tf_estimator.latest_training_job.name                     *)
(* client = tf_estimator.sagemaker_session.sagemaker_client             *)
(* description = client.describe_training_job(TrainingJobName=job_name) *)
Describe ==
  /\ pc = "describe"
  /\ IF HasLatestJob
       THEN LET n0 == Bind(Bind(ns, "job_name", LatestJob), "client", "sagemaker_client") IN
            /\ calls' = Append(calls, Call("describe_training_job", LatestJob))
            /\ \/ /\ LatestJob \in DOMAIN jobs
                  /\ ns' = Bind(n0, "description", DescribeResponse(LatestJob))
                  /\ Continue("describe")
               \/ Raise("describe") /\ ns' = n0
       ELSE Raise("describe") /\ UNCHANGED <<ns, calls>>
  /\ UNCHANGED <<fs, dirs, s3, jobs, out>>

(* dict.pop(k): the dict without the key k. *)
Pop(d, k) == [x \in DOMAIN d \ {k} |-> d[x]]

(* for status in statuses: status.pop('LastModifiedTime');               *)
(*     status.pop('RuleEvaluationJobArn'); pprint.pprint(status)         *)
(* from entry i on: the list as the loop leaves it, what it printed, and *)
(* whether it ran to the end (a pop of a missing key raises KeyError).   *)
RECURSIVE PopLoop(_, _, _)
PopLoop(sts, i, printed) ==
  IF i > Len(sts)
    THEN [statuses |-> sts, printed |-> printed, ok |-> TRUE]
  ELSE IF ~HasKey(sts[i], "LastModifiedTime")
    THEN [statuses |-> sts, printed |-> printed, ok |-> FALSE]
  ELSE LET d1 == Pop(sts[i], "LastModifiedTime") IN
       IF ~HasKey(d1, "RuleEvaluationJobArn")
         THEN [statuses |-> [sts EXCEPT ![i] = d1], printed |-> printed, ok |-> FALSE]
         ELSE LET d2 == Pop(d1, "RuleEvaluationJobArn") IN
              PopLoop([sts EXCEPT ![i] = d2], i + 1, Append(printed, d2))

(* The cell at lines 295-299. *)
RulesLoop ==
  /\ pc = "rules_loop"
  /\ IF Defined("description") /\ HasKey(ns["description"], "DebugRuleEvaluationStatuses")
       THEN LET r == PopLoop(ns["description"]["DebugRuleEvaluationStatuses"], 1, << >>) IN
            /\ ns' = Bind(ns, "description",
                          [ns["description"] EXCEPT
                             !["DebugRuleEvaluationStatuses"] = r.statuses])
            /\ out' = out \o r.printed
            /\ IF r.ok THEN Continue("rules_loop") ELSE Raise("rules_loop")
       ELSE Raise("rules_loop") /\ UNCHANGED <<ns, out>>
  /\ UNCHANGED <<fs, dirs, s3, jobs, calls>>

(* description has description["DebugHookConfig"]["S3OutputPath"]. *)
HasOutputPath(d) ==
  HasKey(d, "DebugHookConfig") /\ HasKey(d["DebugHookConfig"], "S3OutputPath")

(* The output path built with .get(..., '') in place of the subscripts. *)
BuildPath_Get ==
  /\ pc = "build_path"
  /\ IF Defined("description") /\ Defined("job_name")
       THEN LET base == IF HasOutputPath(ns["description"])
                          THEN ns["description"]["DebugHookConfig"]["S3OutputPath"]
                          ELSE ""
                path == base \o ns["job_name"] \o "/" \o "debug-output/" IN
            /\ ns' = Bind(ns, "s3_output_path", path)
            /\ out' = Append(out, path)
            /\ Continue("build_path")
       ELSE Raise("build_path") /\ UNCHANGED <<ns, out>>
  /\ UNCHANGED <<fs, dirs, s3, jobs, calls>>

(* The output path taken from a second describe_training_job read. *)
BuildPath_Redescribe ==
  /\ pc = "build_path"
  /\ Defined("description") /\ Defined("job_name")
  /\ calls' = Append(calls, Call("describe_training_job", ns["job_name"]))
  /\ LET d == DescribeResponse(ns["job_name"]) IN
     IF HasOutputPath(d)
       THEN LET path == d["DebugHookConfig"]["S3OutputPath"]
                          \o ns["job_name"] \o "/" \o "debug-output/" IN
            /\ ns' = Bind(ns, "s3_output_path", path)
            /\ out' = Append(out, path)
            /\ Continue("build_path")
       ELSE Raise("build_path") /\ UNCHANGED <<ns, out>>
  /\ UNCHANGED <<fs, dirs, s3, jobs>>

(* s3_output_path = description["DebugHookConfig"]["S3OutputPath"]      *)
(*                  + job_name + '/' + 'debug-output/'                   *)
(* print(s3_output_path)                                                 *)
BuildPath ==
  /\ pc = "build_path"
  /\ IF Defined("description") /\ Defined("job_name")
          /\ HasOutputPath(ns["description"])
       THEN LET path == ns["description"]["DebugHookConfig"]["S3OutputPath"]
                          \o ns["job_name"] \o "/" \o "debug-output/" IN
            /\ ns' = Bind(ns, "s3_output_path", path)
            /\ out' = Append(out, path)
            /\ Continue("build_path")
       ELSE Raise("build_path") /\ UNCHANGED <<ns, out>>
  /\ UNCHANGED <<fs, dirs, s3, jobs, calls>>

(* %%sh -s "$s3_output_path" / aws s3 ls --recursive $1 *)
AwsS3Ls ==
  /\ pc = "aws_s3_ls"
  /\ calls' = Append(calls, Call("aws_s3_ls",
                IF Defined("s3_output_path") THEN ns["s3_output_path"] ELSE ""))
  /\ \/ Continue("aws_s3_ls")
     \/ Raise("aws_s3_ls")
  /\ UNCHANGED <<ns, fs, dirs, s3, jobs, out>>

(* trial = create_trial(s3_output_path) *)
CreateTrial ==
  /\ pc = "create_trial"
  /\ IF Defined("s3_output_path")
       THEN /\ calls' = Append(calls, Call("create_trial", ns["s3_output_path"]))
            /\ \/ /\ ns' = Bind(ns, "trial", [path |-> ns["s3_output_path"]])
                  /\ out' = Append(out, "trial")
                  /\ Continue("create_trial")
               \/ Raise("create_trial") /\ UNCHANGED <<ns, out>>
       ELSE Raise("create_trial") /\ UNCHANGED <<ns, calls, out>>
  /\ UNCHANGED <<fs, dirs, s3, jobs>>

(* trial.tensor_names() *)
TensorNames ==
  /\ pc = "tensor_names"
  /\ IF Defined("trial")
       THEN /\ calls' = Append(calls, Call("tensor_names", ns["trial"].path))
            /\ \/ out' = Append(out, "tensor_names") /\ Continue("tensor_names")
               \/ Raise("tensor_names") /\ UNCHANGED out
       ELSE Raise("tensor_names") /\ UNCHANGED <<calls, out>>
  /\ UNCHANGED <<ns, fs, dirs, s3, jobs>>

(* loss_values = trial.tensor('val_loss').values() *)
TensorValues ==
  /\ pc = "tensor_values"
  /\ IF Defined("trial")
       THEN /\ calls' = Append(calls, Call("tensor_values", ns["trial"].path))
            /\ \/ /\ ns' = Bind(ns, "loss_values",
                                [tensor |-> "val_loss", path |-> ns["trial"].path])
                  /\ Continue("tensor_values")
               \/ Raise("tensor_values") /\ UNCHANGED ns
       ELSE Raise("tensor_values") /\ UNCHANGED <<ns, calls>>
  /\ UNCHANGED <<fs, dirs, s3, jobs, out>>

(* loss_values *)
ShowLossValues ==
  /\ pc = "show_loss_values"
  /\ IF Defined("loss_values")
       THEN out' = Append(out, "loss_values") /\ Continue("show_loss_values")
       ELSE Raise("show_loss_values") /\ UNCHANGED out
  /\ UNCHANGED <<ns, fs, dirs, s3, jobs, calls>>

Next ==
  \/ LoadData \/ MakeDirs \/ SavezTraining \/ SavezValidation \/ LsData
  \/ SetScriptPath \/ Pygmentize \/ UploadTraining \/ UploadValidation
  \/ PrintPaths \/ ConstructEstimator \/ FitSubmit \/ FitReturn
  \/ JobProgress \/ RuleProgress
  \/ Describe \/ RulesLoop \/ BuildPath \/ AwsS3Ls \/ CreateTrial
  \/ TensorNames \/ TensorValues \/ ShowLossValues

Spec == Init /\ [][Next]_vars

(* ------------------------------------------------------------------ *)
(* Properties                                                          *)
(* ------------------------------------------------------------------ *)

Count(op) == Cardinality({i \in DOMAIN calls : calls[i].op = op})

CallsOf(op, arg) == {i \in DOMAIN calls : calls[i] = Call(op, arg)}

Archives == {"data/training.npz", "data/validation.npz"}

AfterFit == pc # "aborted" /\ StageIndex(pc) > StageIndex("fit_wait")

(* C1: once a stage has raised, the run is over: no later stage makes a  *)
(* call, writes a file, uploads an object, binds a name or prints.       *)
C1_FailureAbortsTheRest ==
  [][raised # "none" =>
       /\ calls' = calls /\ fs' = fs /\ s3' = s3 /\ ns' = ns /\ out' = out
       /\ pc' = "aborted" /\ raised' = raised]_vars

C1_Witness ==
  /\ raised = "upload_validation"
  /\ pc = "aborted"
  /\ Count("upload_data") = 2
  /\ Count("create_training_job") = 0

(* C2: fit has returned only if the job it submitted has ended, and the  *)
(* snapshot describe_training_job returned carries a final job status.   *)
C2_SnapshotOfEndedJob ==
  /\ AfterFit =>
       /\ HasLatestJob
       /\ jobs[LatestJob].TrainingJobStatus \in TerminalStatuses
  /\ Defined("description") =>
       /\ HasKey(ns["description"], "TrainingJobStatus")
       /\ ns["description"]["TrainingJobStatus"] \in TerminalStatuses
       /\ ns["description"]["TrainingJobName"] = LatestJob

C2_Witness ==
  /\ Defined("description")
  /\ ns["description"]["TrainingJobStatus"] = "Completed"
  /\ \E i \in 1..2 :
       ns["description"]["DebugRuleEvaluationStatuses"][i].RuleEvaluationStatus
         = "InProgress"

(* C3: with a snapshot that has no DebugHookConfig, or none with an      *)
(* S3OutputPath, the output-path cell raises: s3_output_path is never    *)
(* bound, nothing is printed by the cell and create_trial is not called. *)
C3_NoPathState ==
  (Defined("description") /\ ~HasOutputPath(ns["description"])) =>
     /\ ~Defined("s3_output_path")
     /\ ~Defined("trial")
     /\ Count("create_trial") = 0
     /\ Count("aws_s3_ls") = 0
     /\ pc \in {"rules_loop", "build_path", "aborted"}

C3_MissingOutputPathRaises ==
  /\ []C3_NoPathState
  /\ [][(pc = "build_path" /\ pc' # pc /\ ~HasOutputPath(ns["description"])) =>
          (pc' = "aborted" /\ raised' = "build_path" /\ out' = out /\ ns' = ns)]_vars

C3_Witness ==
  /\ raised = "build_path"
  /\ Defined("description")
  /\ HasKey(ns["description"], "DebugHookConfig")
  /\ ~HasKey(ns["description"]["DebugHookConfig"], "S3OutputPath")

(* C5: every external operation is attempted at most once in a run, and  *)
(* the verdicts and the output path come from one describe_training_job  *)
(* read.                                                                 *)
C5_NothingRetried ==
  /\ Count("load_data") <= 1
  /\ \A f \in Archives : Cardinality(CallsOf("upload_data", f)) <= 1
  /\ Count("upload_data") <= 2
  /\ Count("create_training_job") <= 1
  /\ Count("describe_training_job") <= 1
  /\ Count("create_trial") <= 1
  /\ Count("tensor_names") <= 1
  /\ Count("tensor_values") <= 1
  /\ Defined("s3_output_path") =>
       /\ Count("describe_training_job") = 1
       /\ Count("create_training_job") = 1
       /\ Count("load_data") = 1
       /\ Count("upload_data") = 2
       /\ ns["s3_output_path"] =
            ns["description"]["DebugHookConfig"]["S3OutputPath"]
              \o ns["job_name"] \o "/debug-output/"

C5_Witness ==
  /\ pc = "done"
  /\ Count("describe_training_job") = 1
  /\ Len(out) >= 4

(* C6: once taken, the snapshot held in description never changes. *)
C6_SnapshotOnlyRead ==
  [][Defined("description") => ns'["description"] = ns["description"]]_vars

(* C7: each archive is written at most once and uploaded at most once,   *)
(* the write comes before the upload, no write follows the upload, and a *)
(* run that reaches the end did each exactly once.                       *)
C7_ArchiveWrittenOnceReadOnce ==
  \A f \in Archives :
    LET W == CallsOf("savez", f)
        R == CallsOf("upload_data", f) IN
    /\ Cardinality(W) <= 1
    /\ Cardinality(R) <= 1
    /\ \A r \in R : \E w \in W : w < r
    /\ \A r \in R : \A w \in W : w < r
    /\ pc = "done" => Cardinality(W) = 1 /\ Cardinality(R) = 1

C7_Witness ==
  /\ \A f \in Archives :
       Cardinality(CallsOf("savez", f)) = 1 /\ Cardinality(CallsOf("upload_data", f)) = 1
  /\ Defined("validation_input_path")

(* C8: the address an upload returns is s3://<bucket>/<key prefix>/<file *)
(* name>; the two uploads return different addresses, each with its own  *)
(* key prefix and file name, and the archive is stored at that address.  *)
C8_DeterministicAddress ==
  LET b == ns["sess"].default_bucket IN
  /\ Defined("training_input_path") =>
       /\ ns["training_input_path"] =
            "s3://" \o b \o "/keras-fashion-mnist/training/training.npz"
       /\ Contains(ns["training_input_path"], "keras-fashion-mnist/training")
       /\ EndsWith(ns["training_input_path"], "/training.npz")
       /\ ns["training_input_path"] \in DOMAIN s3
       /\ s3[ns["training_input_path"]] = fs["data/training.npz"]
  /\ Defined("validation_input_path") =>
       /\ ns["validation_input_path"] =
            "s3://" \o b \o "/keras-fashion-mnist/validation/validation.npz"
       /\ Contains(ns["validation_input_path"], "keras-fashion-mnist/validation")
       /\ EndsWith(ns["validation_input_path"], "/validation.npz")
       /\ ns["validation_input_path"] \in DOMAIN s3
       /\ s3[ns["validation_input_path"]] = fs["data/validation.npz"]
  /\ (Defined("training_input_path") /\ Defined("validation_input_path")) =>
       ns["training_input_path"] # ns["validation_input_path"]

C8_Witness ==
  /\ Defined("training_input_path")
  /\ Defined("validation_input_path")
  /\ Cardinality(DOMAIN s3) = 2

(* C9: each archive holds exactly the keys image and label, with as many *)
(* labels as samples; the training archive holds the training pair and   *)
(* the validation archive the validation pair.                           *)
C9_ArchivesHoldTheirSplit ==
  /\ \A f \in Archives \cap DOMAIN fs :
       /\ DOMAIN fs[f].arrays = {"image", "label"}
       /\ fs[f].arrays["image"].shape[1] = fs[f].arrays["label"].shape[1]
  /\ "data/training.npz" \in DOMAIN fs =>
       /\ fs["data/training.npz"].arrays["image"] = ns["x_train"]
       /\ fs["data/training.npz"].arrays["label"] = ns["y_train"]
       /\ fs["data/training.npz"].arrays["image"].data = "train_images"
       /\ fs["data/training.npz"].arrays["label"].data = "train_labels"
  /\ "data/validation.npz" \in DOMAIN fs =>
       /\ fs["data/validation.npz"].arrays["image"] = ns["x_val"]
       /\ fs["data/validation.npz"].arrays["label"] = ns["y_val"]
       /\ fs["data/validation.npz"].arrays["image"].data = "test_images"
       /\ fs["data/validation.npz"].arrays["label"].data = "test_labels"

C9_Witness ==
  /\ Archives \subseteq DOMAIN fs
  /\ fs["data/training.npz"].arrays["image"].shape[1]
       # fs["data/validation.npz"].arrays["image"].shape[1]

====
